---- MODULE Spec2Model ----
(***************************************************************************)
(* A model of sankaku's paginators: the Paginator driver (construction,    *)
(* next_page, the async iteration protocol), the parameter builders of    *)
(* PostPaginator, TagPaginator and UserPaginator, and the ratelimit        *)
(* decorator that wraps next_page.                                         *)
(*                                                                         *)
(* Python strings that the code builds (str(), f-strings, " ".join) are    *)
(* sequences of one-character strings; dictionary keys, exception names    *)
(* and JSON field names, which the code only compares, are TLA+ strings.   *)
(* Python objects that can be aliased (the params dict, the tags list)     *)
(* live in a heap and are held by reference.                               *)
(***************************************************************************)
EXTENDS Integers, Sequences, FiniteSets, TLC

\* ------------------------------------------------------------------ bounds

\* next_page() calls one paginator may start.
MaxCalls == 3
\* `async for` loops a consumer may run over one paginator.
MaxIters == 2

\* --------------------------------------------------------------- constants

\* sankaku.constants (not among the source files; values as the spec gives them).
BASE_PAGE_NUMBER == 1
BASE_PAGE_LIMIT == 40
PAGE_ALLOWED_ERRORS == {"snackbar__anonymous-recommendations-limit-reached",
                        "snackbar__account_offset-forbidden"}

\* ----------------------------------------------------------------- strings

Digits == <<"0", "1", "2", "3", "4", "5", "6", "7", "8", "9">>

\* str(n) of an int: its decimal digits, after a minus sign if n is negative.
RECURSIVE Str(_)
Str(n) == IF n < 0 THEN <<"-">> \o Str(0 - n)
          ELSE IF n < 10 THEN <<Digits[n + 1]>>
          ELSE Str(n \div 10) \o <<Digits[(n % 10) + 1]>>

\* The value of one decimal digit character as the server reads it.
DigitVal(c) == (CHOOSE i \in 1..10 : Digits[i] = c) - 1

\* int(s) of a decimal string, as the server reads the "page" parameter.
RECURSIVE ParseInt(_)
ParseInt(s) == IF Len(s) = 0 THEN 0
               ELSE 10 * ParseInt(SubSeq(s, 1, Len(s) - 1)) + DigitVal(s[Len(s)])

\* sep.join(parts)
RECURSIVE Join(_, _)
Join(sep, parts) ==
    IF Len(parts) = 0 THEN <<>>
    ELSE IF Len(parts) = 1 THEN parts[1]
    ELSE parts[1] \o sep \o Join(sep, Tail(parts))

\* Optional[T]: None is the empty set, a present value v is {v}.
None == {}
Some(v) == {v}
Get(o) == CHOOSE v \in o : TRUE

\* -------------------------------------------------------------- dict, heap

EmptyDict == [k \in {} |-> <<>>]

\* d[k] = v on a dict held by value.
Put(d, k, v) == [x \in DOMAIN d \cup {k} |-> IF x = k THEN v ELSE d[x]]

\* {k: v for k in d if k not in ks}
Without(d, ks) == [x \in DOMAIN d \ ks |-> d[x]]

Insts == {1, 2}
\* Object ids: 0 is the object the caller passes in, p is the one that p's
\* constructor allocates.
Refs == {0} \cup Insts

VARIABLES
    dicts,      \* heap of dict objects: Refs -> mapping key -> string
    lists,      \* heap of list objects: Refs -> sequence of strings
    pag,        \* Insts -> the paginator object's attributes
    ctorError,  \* Insts -> the exception construction raised, or "none"
    pc,         \* Insts -> where the next_page() call in flight is suspended
    callStart,  \* Insts -> page_number and params when the call in flight started
    json,       \* Insts -> the decoded body response.json() returned to the call
    pending,    \* Insts -> what the call's body produced, before leaving `async with`
    result,     \* Insts -> how the last next_page() call of the current loop ended
    anextOut,   \* Insts -> how that call's __anext__() ended for the consumer
    iter,       \* Insts -> the consumer's `async for` loop over the paginator
    calls,      \* Insts -> next_page() calls started
    start,      \* Insts -> page_number as construction left it
    server,     \* the first page number the server answers with an empty body
    given,      \* Insts -> the limit, options and tags the constructor was given
    runs,       \* Insts -> the params mapping after each complete_params() run
    ctype,      \* Insts -> the content type of the response the call received
    limiter,    \* the decorator ratelimit(...) returned, or the error it raised
    clock,      \* the event loop's time, in ticks
    lcalls      \* the invocations of the rate-limited operation

\* The state of the paginators and of their consumers.
pagvars == <<dicts, lists, pag, ctorError, pc, callStart, json, pending, result,
             anextOut, iter, calls, start, server, given, runs, ctype>>
\* The state of the rate limiter and of the calls through it.
limvars == <<limiter, clock, lcalls>>

vars == <<pagvars, limvars>>


\* -------------------------------------------------------------------- JSON

\* A JSON value as response.json() returns it: a list of items, a string or
\* a number (its text in s).
JList(l) == [t |-> "list", s |-> "", l |-> l]
JStr(s) == [t |-> "str", s |-> s, l |-> <<>>]
JInt(s) == [t |-> "int", s |-> s, l |-> <<>>]
JNull == [t |-> "null", s |-> "", l |-> <<>>]

\* An element met while iterating the item list: a JSON object {key: val},
\* or a bare string (a key of a dict that is iterated as if it were a list).
ObjItem(key, val) == [t |-> "obj", key |-> key, val |-> val]
StrItem(key) == [t |-> "str", key |-> key, val |-> 0]

\* A decoded body: a JSON list of items or a JSON object.
ListBody(l) == [t |-> "list", l |-> l, o |-> EmptyDict]
ObjBody(o) == [t |-> "obj", l |-> <<>>, o |-> o]
NoBody == [t |-> "none", l |-> <<>>, o |-> EmptyDict]

\* -------------------------------------------------------- results, errors

Exc(name, msg, error_id, code, kwargs, page) ==
    [exc |-> name, msg |-> msg, error_id |-> error_id, code |-> code,
     kwargs |-> kwargs, page |-> page]
NoExc == Exc("none", "", JNull, JNull, EmptyDict, 0)

\* errors.PaginatorLastPage(page_number)
PaginatorLastPage(n) == Exc("PaginatorLastPage", "", JNull, JNull, EmptyDict, n)
\* errors.SankakuError(msg, error_id, code, kwargs)
SankakuError(msg, error_id, code, kwargs) ==
    Exc("SankakuError", msg, error_id, code, kwargs, 0)
\* Builtin and third-party exceptions, which carry nothing the model reads.
OtherError(name) == Exc(name, "", JNull, JNull, EmptyDict, 0)

\* mdl.Page(number=..., items=...)
Page(number, items) == [number |-> number, items |-> items]
NoPage == Page(0, <<>>)

Return(page) == [kind |-> "return", page |-> page, exc |-> NoExc]
Raise(exc) == [kind |-> "raise", page |-> NoPage, exc |-> exc]
NoResult == [kind |-> "none", page |-> NoPage, exc |-> NoExc]
StopAsyncIteration == Raise(OtherError("StopAsyncIteration"))

\* ------------------------------------------------------- paginator object

\* Characters of the attribute names and enum values the PostPaginator
\* formats into tag tokens.
Ch_order == <<"o", "r", "d", "e", "r">>
Ch_rating == <<"r", "a", "t", "i", "n", "g">>
Ch_file_type == <<"f", "i", "l", "e", "_", "t", "y", "p", "e">>
Ch_threshold == <<"t", "h", "r", "e", "s", "h", "o", "l", "d">>
Ch_recommended_for == <<"r", "e", "c", "o", "m", "m", "e", "n", "d", "e", "d", "_", "f", "o", "r">>
Ch_voted == <<"v", "o", "t", "e", "d">>
Ch_date == <<"d", "a", "t", "e">>
Ch_duration == <<"d", "u", "r", "a", "t", "i", "o", "n">>
Ch_fav == <<"f", "a", "v">>
Ch_user == <<"u", "s", "e", "r">>
Ch_en == <<"e", "n">>

\* types.FileType members, by value.
FileType_IMAGE == <<"i", "m", "a", "g", "e">>
FileType_VIDEO == <<"v", "i", "d", "e", "o">>
FileType_GIF == <<"g", "i", "f">>
\* types.Rating.SAFE, types.PostOrder.QUALITY, types.FileSize.LARGE, by value.
Rating_SAFE == <<"s">>
PostOrder_QUALITY == <<"q", "u", "a", "l", "i", "t", "y">>
FileSize_LARGE == <<"l", "a", "r", "g", "e", "-", "f", "i", "l", "e", "s", "i", "z", "e">>

\* Mutant of PostFields: voted is assigned first.
PostFields_VotedFirst ==
    <<"voted", "order", "date", "rating", "threshold", "hide_posts_in_books",
      "file_size", "file_type", "video_duration", "recommended_for",
      "favorited_by", "tags", "added_by">>

\* The PostPaginator attributes set before super().__init__(), in the order
\* __init__ assigns them (the order self.__dict__ iterates them in).
PostFields == <<"order", "date", "rating", "threshold", "hide_posts_in_books",
                "file_size", "file_type", "video_duration", "recommended_for",
                "favorited_by", "tags", "added_by", "voted">>

\* The filter options of a paginator with none given (and of a basic
\* Paginator, which has no such attributes). tags holds a reference to a
\* list object.
NoOptions ==
    [order |-> None, date |-> None, rating |-> None, threshold |-> None,
     hide_posts_in_books |-> None, file_size |-> None, file_type |-> None,
     video_duration |-> None, recommended_for |-> None, favorited_by |-> None,
     tags |-> None, added_by |-> None, voted |-> None]

\* A paginator that has not been constructed.
Unbuilt == [kind |-> "none", page_number |-> 0, limit |-> 0, params |-> 0,
            opt |-> NoOptions]

\* x or default, for an Optional[int] x: None and 0 are falsy.
IntOr(x, default) == IF x = None \/ Get(x) = 0 THEN default ELSE Get(x)

\* A two-digit, zero-padded number, as strftime writes %m %d %H %M.
Pad2(n) == IF n < 10 THEN <<"0">> \o Str(n) ELSE Str(n)
\* A four-digit, zero-padded year, as strftime writes %Y.
Pad4(n) == IF n < 10 THEN <<"0", "0", "0">> \o Str(n)
           ELSE IF n < 100 THEN <<"0", "0">> \o Str(n)
           ELSE IF n < 1000 THEN <<"0">> \o Str(n) ELSE Str(n)

\* d.strftime("%Y-%m-%dT%H:%M") of a datetime d = [y, mo, d, h, mi, s].
Strftime(d) == Pad4(d.y) \o <<"-">> \o Pad2(d.mo) \o <<"-">> \o Pad2(d.d)
               \o <<"T">> \o Pad2(d.h) \o <<":">> \o Pad2(d.mi)

\* [f(x) for x in xs]
RECURSIVE MapStrftime(_)
MapStrftime(ds) == IF Len(ds) = 0 THEN <<>>
                   ELSE <<Strftime(Head(ds))>> \o MapStrftime(Tail(ds))
RECURSIVE MapStr(_)
MapStr(ns) == IF Len(ns) = 0 THEN <<>> ELSE <<Str(Head(ns))>> \o MapStr(Tail(ns))
RECURSIVE MapUser(_)
MapUser(us) == IF Len(us) = 0 THEN <<>>
               ELSE <<Ch_user \o <<":">> \o Head(us)>> \o MapUser(Tail(us))

\* Paginator.complete_params on the dict d.
CompleteParams(d, page_number, limit) ==
    Put(Put(Put(d, "lang", Ch_en), "page", Str(page_number)), "limit", Str(limit))

\* Mutant of PostMatch: a video duration is formatted whatever the file type.
PostMatch_NoDurationCheck(o, k) ==
    LET v == o[k]
        toks(ts) == [err |-> "none", toks |-> ts]
    IN  IF v = None THEN toks(<<>>)
        ELSE IF k \in {"rating", "order", "file_type"} /\ Get(v) # FileType_IMAGE
        THEN toks(<<(CASE k = "rating" -> Ch_rating
                       [] k = "order" -> Ch_order
                       [] OTHER -> Ch_file_type) \o <<":">> \o Get(v)>>)
        ELSE IF k = "threshold" THEN toks(<<Ch_threshold \o <<":">> \o Str(Get(v))>>)
        ELSE IF k = "recommended_for"
        THEN toks(<<Ch_recommended_for \o <<":">> \o Get(v)>>)
        ELSE IF k = "voted" THEN toks(<<Ch_voted \o <<":">> \o Get(v)>>)
        ELSE IF k = "file_size" THEN toks(<<Get(o.file_size)>>)
        ELSE IF k = "date"
        THEN toks(<<Ch_date \o <<":">>
                    \o Join(<<".", ".">>, MapStrftime(Get(o.date)))>>)
        ELSE IF k = "video_duration"
        THEN toks(<<Ch_duration \o <<":">>
                    \o Join(<<".", ".">>, MapStr(Get(o.video_duration)))>>)
        ELSE IF k = "favorited_by" THEN toks(<<Ch_fav \o <<":">> \o Get(o.favorited_by)>>)
        ELSE IF k = "added_by" THEN toks(MapUser(Get(o.added_by)))
        ELSE toks(<<>>)

\* One pass of the match statement in PostPaginator.complete_params for the
\* attribute k of options o: the tokens it appends to self.tags, or the
\* error it raises.
PostMatch(o, k) ==
    LET v == o[k]
        toks(ts) == [err |-> "none", toks |-> ts]
    IN  IF v = None THEN toks(<<>>)
        ELSE IF k \in {"rating", "order", "file_type"} /\ Get(v) # FileType_IMAGE
        THEN toks(<<(CASE k = "rating" -> Ch_rating
                       [] k = "order" -> Ch_order
                       [] OTHER -> Ch_file_type) \o <<":">> \o Get(v)>>)
        ELSE IF k = "threshold" THEN toks(<<Ch_threshold \o <<":">> \o Str(Get(v))>>)
        ELSE IF k = "recommended_for"
        THEN toks(<<Ch_recommended_for \o <<":">> \o Get(v)>>)
        ELSE IF k = "voted" THEN toks(<<Ch_voted \o <<":">> \o Get(v)>>)
        ELSE IF k = "file_size" THEN toks(<<Get(o.file_size)>>)
        ELSE IF k = "date"
        THEN toks(<<Ch_date \o <<":">>
                    \o Join(<<".", ".">>, MapStrftime(Get(o.date)))>>)
        ELSE IF k = "video_duration" /\ o.file_type # Some(FileType_VIDEO)
        THEN [err |-> "VideoDurationError", toks |-> <<>>]
        ELSE IF k = "video_duration"
        THEN toks(<<Ch_duration \o <<":">>
                    \o Join(<<".", ".">>, MapStr(Get(o.video_duration)))>>)
        ELSE IF k = "favorited_by" THEN toks(<<Ch_fav \o <<":">> \o Get(o.favorited_by)>>)
        ELSE IF k = "added_by" THEN toks(MapUser(Get(o.added_by)))
        ELSE toks(<<>>)

\* The for loop of PostPaginator.complete_params from attribute number i on,
\* over the list tags (self.tags): the list it leaves and the error raised.
\* The attributes of the base class (model, session, url, page_number, limit,
\* params) come last in self.__dict__ and match no case that appends.
RECURSIVE PostLoop(_, _, _)
PostLoop(o, i, tags) ==
    IF i > Len(PostFields) THEN [err |-> "none", tags |-> tags]
    ELSE LET m == PostMatch(o, PostFields[i])
         IN  IF m.err # "none" THEN [err |-> m.err, tags |-> tags]
             ELSE PostLoop(o, i + 1, tags \o m.toks)

\* PostPaginator.complete_params after super().complete_params(): d is the
\* params dict, tags the content of the list self.tags refers to. Gives the
\* dict and the list it leaves and the error raised ("none": no error).
PostCompleteParams(d, o, tags) ==
    LET loop == PostLoop(o, 1, tags)
        d1 == IF o.hide_posts_in_books # None
              THEN Put(d, "hide_posts_in_books", Get(o.hide_posts_in_books))
              ELSE d
        d2 == IF Len(loop.tags) > 0
              THEN Put(d1, "tags", Join(<<" ">>, loop.tags))
              ELSE d1
    IN  [err |-> loop.err, tags |-> loop.tags,
         params |-> IF loop.err = "none" THEN d2 ELSE d]

\* types.TagType.ARTIST and types.UserLevel.MEMBER, by value (ints);
\* types.TagOrder.POPULARITY, types.UserOrder.NEWEST, types.SortParameter.NAME
\* and the two types.SortDirection members, by value (strings).
TagType_ARTIST == 1
UserLevel_MEMBER == 20
TagOrder_POPULARITY == <<"p", "o", "p", "u", "l", "a", "r", "i", "t", "y">>
UserOrder_NEWEST == <<"n", "e", "w", "e", "s", "t">>
SortParameter_NAME == <<"n", "a", "m", "e">>
SortDirection_ASC == <<"a", "s", "c">>
SortDirection_DESC == <<"d", "e", "s", "c">>

\* The options of a TagPaginator and of a UserPaginator with none given.
NoTagOptions ==
    [tag_type |-> None, order |-> None, rating |-> None, max_post_count |-> None,
     sort_parameter |-> None, sort_direction |-> None]
NoUserOptions == [order |-> None, level |-> None]

\* x or default, for an Optional enum member x (members are truthy).
EnumOr(x, default) == IF x = None THEN default ELSE Get(x)

\* d[k] = v if the option x is not None.
PutIf(d, k, x, v) == IF x # None THEN Put(d, k, v) ELSE d

\* TagPaginator.complete_params after super().complete_params().
TagCompleteParams(d, o) ==
    LET d1 == PutIf(d, "types[]", o.tag_type, Str(Get(o.tag_type)))
        d2 == PutIf(d1, "order", o.order, Get(o.order))
        d3 == PutIf(d2, "rating", o.rating, Get(o.rating))
        d4 == PutIf(d3, "amount", o.max_post_count, Str(Get(o.max_post_count)))
    IN  IF o.sort_parameter # None
        THEN Put(Put(d4, "sortBy", Get(o.sort_parameter)),
                 "sortDirection", Get(o.sort_direction))
        ELSE d4

\* UserPaginator.complete_params after super().complete_params().
UserCompleteParams(d, o) ==
    LET d1 == PutIf(d, "order", o.order, Get(o.order))
    IN  PutIf(d1, "level", o.level, Str(Get(o.level)))

\* ------------------------------------------------------------- next_page

\* The item decoder self.model(**item). The model classes are collaborators:
\* here a model takes exactly the field "id"; any other field, and an item
\* that is no mapping, raise TypeError.
ModelAccepts(item) == item.t = "obj" /\ item.key = "id"
ModelInit(item) == [cls |-> "Model", id |-> item.val]

\* What `for item in data` iterates: the elements of a list, the keys of a
\* dict (in any order: the first one already fails to decode).
RECURSIVE KeyItems(_)
KeyItems(ks) == IF ks = {} THEN <<>>
                ELSE LET k == CHOOSE x \in ks : TRUE
                     IN  <<StrItem(k)>> \o KeyItems(ks \ {k})
Iterate(data) == IF data.t = "list" THEN data.l ELSE KeyItems(DOMAIN data.o)

\* [self.model(**item) for item in data]
RECURSIVE DecodeAll(_)
DecodeAll(items) == IF Len(items) = 0 THEN <<>>
                    ELSE <<ModelInit(Head(items))>> \o DecodeAll(Tail(items))

\* Mutant of PageNumberOf: the Page takes the page number after the advance.
PageNumberOf_NoOffset(n) == n

\* The number of the Page built when self.page_number is n.
PageNumberOf(n) == n - 1

\* Paginator.construct_page(data) with self.page_number = n.
ConstructPage(data, n) ==
    LET items == Iterate(data)
    IN  IF \E i \in 1..Len(items) : ~ModelAccepts(items[i])
        THEN Raise(OtherError("TypeError"))
        ELSE Return(Page(PageNumberOf(n), DecodeAll(items)))

\* Mutant of IsEmptyPage: only the bare empty list ends the pages.
IsEmptyPage_ListOnly(body) == body.t = "list" /\ body.l = <<>>

\* The patterns of the match statement in next_page.
IsEmptyPage(body) ==
    \/ body.t = "list" /\ body.l = <<>>
    \/ /\ body.t = "obj" /\ "data" \in DOMAIN body.o
       /\ body.o["data"].t = "list" /\ body.o["data"].l = <<>>
IsAllowedError(body) ==
    /\ body.t = "obj" /\ "code" \in DOMAIN body.o
    /\ body.o["code"].t = "str" /\ body.o["code"].s \in PAGE_ALLOWED_ERRORS
IsApiError(body) ==
    body.t = "obj" /\ "code" \in DOMAIN body.o /\ "errorId" \in DOMAIN body.o
IsWrappedPage(body) ==
    /\ body.t = "obj" /\ "data" \in DOMAIN body.o
    /\ body.o["data"].t = "list" /\ body.o["data"].l # <<>>

\* Mutant of ApiErrorKwargs: the pattern leaves errorId among the rest.
ApiErrorKwargs_KeepsErrorId(body) == Without(body.o, {"code"})

\* **kwargs of the API error pattern: the fields it does not name.
ApiErrorKwargs(body) == Without(body.o, {"code", "errorId"})

\* Mutant of Match: the API error pattern is tried first.
Match_ApiErrorFirst(body, n) ==
    IF IsApiError(body)
    THEN [exc |-> SankakuError("None", body.o["errorId"], body.o["code"],
                               ApiErrorKwargs(body)),
          data |-> body]
    ELSE IF IsEmptyPage(body) THEN [exc |-> PaginatorLastPage(n), data |-> body]
    ELSE IF IsAllowedError(body) THEN [exc |-> PaginatorLastPage(n), data |-> body]
    ELSE IF IsWrappedPage(body) THEN [exc |-> NoExc, data |-> ListBody(body.o["data"].l)]
    ELSE [exc |-> NoExc, data |-> body]

\* The match statement of next_page on the decoded body, with
\* self.page_number = n: the exception it raises, or the data it leaves.
Match(body, n) ==
    IF IsEmptyPage(body) THEN [exc |-> PaginatorLastPage(n), data |-> body]
    ELSE IF IsAllowedError(body) THEN [exc |-> PaginatorLastPage(n), data |-> body]
    ELSE IF IsApiError(body)
    THEN [exc |-> SankakuError("None", body.o["errorId"], body.o["code"],
                               ApiErrorKwargs(body)),
          data |-> body]
    ELSE IF IsWrappedPage(body) THEN [exc |-> NoExc, data |-> ListBody(body.o["data"].l)]
    ELSE [exc |-> NoExc, data |-> body]

\* Mutant of Advance: the page number is advanced twice.
Advance_ByTwo(n) == n + 2

\* self.page_number += 1
Advance(n) == n + 1

\* Mutant of NextPageBody: the "page" parameter is not rewritten after the
\* advance.
NextPageBody_KeepsPageParam(n, d, body) ==
    LET m == Match(body, n)
    IN  IF m.exc # NoExc
        THEN [result |-> Raise(m.exc), page_number |-> n, params |-> d]
        ELSE [result |-> ConstructPage(m.data, Advance(n)),
              page_number |-> Advance(n), params |-> d]

\* next_page from the value of response.json() to the end of the `async
\* with` body, on page_number n and the params dict d: the outcome and the
\* page_number and params it leaves.
NextPageBody(n, d, body) ==
    LET m == Match(body, n)
    IN  IF m.exc # NoExc
        THEN [result |-> Raise(m.exc), page_number |-> n, params |-> d]
        ELSE LET n1 == Advance(n)
             IN  [result |-> ConstructPage(m.data, n1), page_number |-> n1,
                  params |-> Put(d, "page", Str(n1))]

\* Mutant of Anext: every exception ends the iteration.
Anext_CatchesAll(r) == IF r.kind = "raise" THEN StopAsyncIteration ELSE r

\* Paginator.__anext__: what the consumer gets for next_page's outcome r.
Anext(r) ==
    IF r.kind = "raise" /\ r.exc.exc = "PaginatorLastPage"
    THEN StopAsyncIteration ELSE r

\* ------------------------------------------------------------ construction

\* params or {}: the dict object the paginator p keeps, for the argument
\* params_arg (None, or a reference to the caller's dict). An empty dict is
\* falsy, so it is replaced by a new one like None is.
ParamsRef(p, params_arg) ==
    IF params_arg # None /\ DOMAIN dicts[Get(params_arg)] # {}
    THEN Get(params_arg) ELSE p

\* self.tags after `if self.tags is None: self.tags = []`: the list object
\* the PostPaginator p appends its tokens to.
TagsRef(p, tags_arg) == IF tags_arg = None THEN p ELSE Get(tags_arg)

\* self.complete_params() of a paginator of the given kind, on the params
\* dict d and, for a PostPaginator, the list tags: the dict and the list it
\* leaves and the error raised ("none": no error). Every variant first runs
\* Paginator.complete_params.
Complete(kind, d, page_number, limit, o, tags) ==
    LET d1 == CompleteParams(d, page_number, limit)
        plain(d2) == [err |-> "none", tags |-> tags, params |-> d2]
    IN  CASE kind = "post" -> PostCompleteParams(d1, o, tags)
          [] kind = "tag" -> plain(TagCompleteParams(d1, o))
          [] kind = "user" -> plain(UserCompleteParams(d1, o))
          [] OTHER -> plain(d1)

\* __init__ of Paginator, PostPaginator, TagPaginator and UserPaginator for
\* instance p: the heap and the object they leave, and the error
\* construction raises.
Init__(p, kind, page_arg, limit_arg, params_arg, o) ==
    LET page_number == IntOr(page_arg, BASE_PAGE_NUMBER)
        limit == IntOr(limit_arg, BASE_PAGE_LIMIT)
        pref == ParamsRef(p, params_arg)
        d0 == IF pref = p THEN EmptyDict ELSE dicts[pref]
        tref == IF kind = "post" THEN TagsRef(p, o.tags) ELSE p
        t0 == IF kind = "post" /\ o.tags # None THEN lists[tref] ELSE <<>>
        opt == CASE kind = "post" -> [o EXCEPT !.tags = Some(tref)]
                 [] kind = "tag" ->
                      [o EXCEPT !.sort_direction =
                                  Some(EnumOr(o.sort_direction, SortDirection_DESC))]
                 [] OTHER -> o
        c == Complete(kind, d0, page_number, limit, opt, t0)
    IN  [err |-> c.err,
         dicts |-> [dicts EXCEPT ![pref] = c.params],
         lists |-> IF kind = "post" THEN [lists EXCEPT ![tref] = c.tags] ELSE lists,
         obj |-> [kind |-> kind, page_number |-> page_number, limit |-> limit,
                  params |-> pref, opt |-> opt]]

\* The consumer's loop over a paginator: its status, how many loops were
\* started, the numbers of the Pages the current loop received, the params
\* of the requests the current loop sent, the "page" parameter when the
\* last loop that ended did so, and what it was when the loop before the
\* current one ended.
NoLoop == [status |-> "none", no |-> 0, yielded |-> <<>>, reqs |-> <<>>,
           endPage |-> <<>>, prevEnd |-> <<>>]

\* What `given` holds for a paginator that was not constructed.
NoGiven == [limit |-> None, opt |-> NoOptions, tags |-> None]

Built(p) == pag[p].kind # "none"
\* The content of p's params dict.
Params(p) == dicts[pag[p].params]

\* The caller constructs paginator p.
Construct(p, kind, page_arg, limit_arg, params_arg, o) ==
    /\ ~Built(p) /\ ctorError[p] = "none"
    /\ LET c == Init__(p, kind, page_arg, limit_arg, params_arg, o)
       IN  /\ dicts' = c.dicts
           /\ lists' = c.lists
           /\ IF c.err = "none"
              THEN /\ pag' = [pag EXCEPT ![p] = c.obj]
                   /\ start' = [start EXCEPT ![p] = c.obj.page_number]
                   /\ runs' = [runs EXCEPT ![p] = <<c.dicts[c.obj.params]>>]
                   /\ UNCHANGED ctorError
              ELSE /\ ctorError' = [ctorError EXCEPT ![p] = c.err]
                   /\ UNCHANGED <<pag, start, runs>>
    /\ given' = [given EXCEPT
                   ![p] = [limit |-> limit_arg, opt |-> o,
                           tags |-> IF kind = "post" /\ o.tags # None
                                    THEN Some(lists[Get(o.tags)]) ELSE None]]
    /\ UNCHANGED <<pc, callStart, json, pending, result, anextOut, iter, calls,
                   server, ctype, limvars>>

\* complete_params() runs followed on one paginator, construction's included.
MaxRuns == 3

\* The caller runs p.complete_params() again.
CompleteParamsAgain(p) ==
    /\ Built(p) /\ pc[p] = "idle" /\ Len(runs[p]) < MaxRuns
    /\ LET o == pag[p].opt
           post == pag[p].kind = "post"
           c == Complete(pag[p].kind, Params(p), pag[p].page_number, pag[p].limit,
                         o, IF post THEN lists[Get(o.tags)] ELSE <<>>)
       IN  /\ dicts' = [dicts EXCEPT ![pag[p].params] = c.params]
           /\ lists' = IF post THEN [lists EXCEPT ![Get(o.tags)] = c.tags] ELSE lists
           /\ runs' = [runs EXCEPT ![p] = IF c.err = "none" THEN Append(@, c.params)
                                          ELSE @]
    /\ UNCHANGED <<pag, ctorError, pc, callStart, json, pending, result, anextOut,
                   iter, calls, start, server, given, ctype, limvars>>

\* --------------------------------------------------------------- iteration

\* Mutant of Aiter: a new loop starts again from the base page.
Aiter_Resets(n, d) ==
    [page_number |-> BASE_PAGE_NUMBER,
     params |-> Put(d, "page", Str(BASE_PAGE_NUMBER))]

\* Paginator.__aiter__ returns self: the page_number and the params dict d
\* it leaves.
Aiter(n, d) == [page_number |-> n, params |-> d]

\* The consumer starts an `async for` loop over paginator p.
StartLoop(p) ==
    /\ Built(p) /\ pc[p] = "idle"
    /\ iter[p].status # "running" /\ iter[p].no < MaxIters
    /\ LET a == Aiter(pag[p].page_number, Params(p))
       IN  /\ pag' = [pag EXCEPT ![p].page_number = a.page_number]
           /\ dicts' = [dicts EXCEPT ![pag[p].params] = a.params]
    /\ iter' = [iter EXCEPT ![p] = [status |-> "running", no |-> @.no + 1,
                                    yielded |-> <<>>, reqs |-> <<>>,
                                    endPage |-> @.endPage,
                                    prevEnd |-> @.endPage]]
    /\ json' = [json EXCEPT ![p] = NoBody]
    /\ result' = [result EXCEPT ![p] = NoResult]
    /\ anextOut' = [anextOut EXCEPT ![p] = NoResult]
    /\ ctype' = [ctype EXCEPT ![p] = ""]
    /\ UNCHANGED <<lists, ctorError, pc, callStart, pending, calls, start, server,
                   given, runs, limvars>>

\* The loop asks for the next Page: __anext__ calls next_page, whose
\* rate-limit wrapper first awaits asyncio.sleep.
CallNextPage(p) ==
    /\ Built(p) /\ pc[p] = "idle" /\ iter[p].status = "running"
    /\ calls[p] < MaxCalls
    /\ pc' = [pc EXCEPT ![p] = "sleep"]
    /\ calls' = [calls EXCEPT ![p] = @ + 1]
    /\ callStart' = [callStart EXCEPT
                       ![p] = [page_number |-> pag[p].page_number,
                               params |-> Params(p)]]
    /\ json' = [json EXCEPT ![p] = NoBody]
    /\ pending' = [pending EXCEPT ![p] = NoResult]
    /\ result' = [result EXCEPT ![p] = NoResult]
    /\ anextOut' = [anextOut EXCEPT ![p] = NoResult]
    /\ ctype' = [ctype EXCEPT ![p] = ""]
    /\ UNCHANGED <<dicts, lists, pag, ctorError, iter, start, server, given, runs,
                   limvars>>

\* The sleep is over: next_page calls session.get(self.url, params=self.params),
\* which sends the request with the params as they are now, and awaits the
\* response.
SendRequest(p) ==
    /\ pc[p] = "sleep"
    /\ pc' = [pc EXCEPT ![p] = "get"]
    /\ iter' = [iter EXCEPT ![p].reqs = Append(@, Params(p))]
    /\ UNCHANGED <<dicts, lists, pag, ctorError, callStart, json, pending,
                   result, anextOut, calls, start, server, given, runs, ctype, limvars>>

\* The call of p ends with outcome r: __anext__ hands the consumer a Page,
\* ends the loop or lets the exception through.
Finish(p, r) ==
    LET out == Anext(r)
    IN  /\ pc' = [pc EXCEPT ![p] = "idle"]
        /\ result' = [result EXCEPT ![p] = r]
        /\ anextOut' = [anextOut EXCEPT ![p] = out]
        /\ pending' = [pending EXCEPT ![p] = NoResult]
        /\ iter' = [iter EXCEPT ![p] =
                      IF out.kind = "return"
                      THEN [@ EXCEPT !.yielded = Append(@, out.page.number)]
                      ELSE [@ EXCEPT !.status = IF out = StopAsyncIteration
                                                THEN "ended" ELSE "failed",
                                     !.endPage = Params(p)["page"]]]

\* Mutant of GetReturns: the body is decoded whatever the content type.
GetReturns_IgnoresContentType(p, ct) ==
    /\ pc[p] = "get"
    /\ pc' = [pc EXCEPT ![p] = "json"]
    /\ ctype' = [ctype EXCEPT ![p] = ct]
    /\ UNCHANGED <<dicts, lists, pag, ctorError, callStart, json, pending, result,
                   anextOut, iter, calls, start, server, given, runs, limvars>>

\* The response arrives with content type ct. A content type other than
\* JSON raises inside the `async with` block.
GetReturns(p, ct) ==
    /\ pc[p] = "get"
    /\ IF ct # "application/json"
       THEN /\ pending' = [pending EXCEPT ![p] =
                             Raise(SankakuError("Response content type is invalid",
                                                JNull, JNull, EmptyDict))]
            /\ pc' = [pc EXCEPT ![p] = "exit"]
       ELSE /\ pc' = [pc EXCEPT ![p] = "json"]
            /\ UNCHANGED pending
    /\ ctype' = [ctype EXCEPT ![p] = ct]
    /\ UNCHANGED <<dicts, lists, pag, ctorError, callStart, json, result,
                   anextOut, iter, calls, start, server, given, runs, limvars>>

\* The transport fails: session.get raises before the block is entered.
GetFails(p) ==
    /\ pc[p] = "get"
    /\ Finish(p, Raise(OtherError("ClientError")))
    /\ UNCHANGED <<dicts, lists, pag, ctorError, callStart, json, calls, start,
                   server, given, runs, ctype, limvars>>

\* response.json() returns body: the match statement, the advance of the
\* page and construct_page run without suspending, up to the exit of the
\* `async with` block.
JsonReturns(p, body) ==
    /\ pc[p] = "json"
    /\ LET r == NextPageBody(pag[p].page_number, Params(p), body)
       IN  /\ pag' = [pag EXCEPT ![p].page_number = r.page_number]
           /\ dicts' = [dicts EXCEPT ![pag[p].params] = r.params]
           /\ pending' = [pending EXCEPT ![p] = r.result]
    /\ json' = [json EXCEPT ![p] = body]
    /\ pc' = [pc EXCEPT ![p] = "exit"]
    /\ UNCHANGED <<lists, ctorError, callStart, result, anextOut, iter, calls,
                   start, server, given, runs, ctype, limvars>>

\* response.json() raises: the body is no JSON text.
JsonFails(p) ==
    /\ pc[p] = "json"
    /\ pending' = [pending EXCEPT ![p] = Raise(OtherError("JSONDecodeError"))]
    /\ pc' = [pc EXCEPT ![p] = "exit"]
    /\ UNCHANGED <<dicts, lists, pag, ctorError, callStart, json, result,
                   anextOut, iter, calls, start, server, given, runs, ctype, limvars>>

\* The `async with` block is left (the response is released) and next_page
\* ends with what its body produced.
ExitContext(p) ==
    /\ pc[p] = "exit"
    /\ Finish(p, pending[p])
    /\ UNCHANGED <<dicts, lists, pag, ctorError, callStart, json, calls, start,
                   server, given, runs, ctype, limvars>>

\* The points where next_page is suspended and a cancellation is delivered.
SuspendPoints == {"sleep", "get", "json", "exit"}

\* The task running the call is cancelled while it is suspended:
\* CancelledError is raised at the await and leaves next_page and __anext__.
Cancel(p) ==
    /\ pc[p] \in SuspendPoints
    /\ Finish(p, Raise(OtherError("CancelledError")))
    /\ UNCHANGED <<dicts, lists, pag, ctorError, callStart, json, calls, start,
                   server, given, runs, ctype, limvars>>

\* ------------------------------------------------------------ rate limiter

\* Ticks of the clock in one second: sleep times are counted in ticks. The
\* rates below divide it exactly, so that \div is the division 1 / rps.
TicksPerSecond == 10
SecondsPerMinute == 60
\* The clock stops at MaxClock; MaxLCalls invocations are followed.
MaxClock == 6
MaxLCalls == 2
LCalls == 1..MaxLCalls

\* bool(x) of an Optional[int]: None and 0 are falsy.
Truthy(x) == x # None /\ Get(x) # 0

\* (1 / rps) if rps else (60 / rpm), in ticks.
SleepTime(rps, rpm) ==
    IF Truthy(rps) THEN TicksPerSecond \div Get(rps)
    ELSE (SecondsPerMinute * TicksPerSecond) \div Get(rpm)

\* ratelimit(rps=rps, rpm=rpm): the error it raises, or the decorator it
\* returns, which holds sleep_time in its closure.
Ratelimit(rps, rpm) ==
    IF Truthy(rps) /\ Truthy(rpm)
    THEN [state |-> "raised", err |-> "RateLimitError", sleep_time |-> 0,
          rps |-> rps, rpm |-> rpm]
    ELSE IF ~(Truthy(rps) \/ Truthy(rpm))
    THEN [state |-> "raised", err |-> "TypeError", sleep_time |-> 0,
          rps |-> rps, rpm |-> rpm]
    ELSE [state |-> "built", err |-> "none", sleep_time |-> SleepTime(rps, rpm),
          rps |-> rps, rpm |-> rpm]

\* ratelimit has not been evaluated.
NoLimiter == [state |-> "none", err |-> "none", sleep_time |-> 0,
              rps |-> None, rpm |-> None]

\* An invocation of inner: when it was called, when its sleep is due, when
\* the wrapped operation started.
NoLCall == [state |-> "none", called |-> 0, due |-> 0, started |-> 0]

\* Mutant of SleepDue: the sleep is skipped.
SleepDue_NoSleep(now, sleep_time) == now

\* asyncio.sleep(sleep_time) called at time now: the time it is due.
SleepDue(now, sleep_time) == now + sleep_time

\* The module evaluates ratelimit(rps=..., rpm=...).
EvalRatelimit(rps, rpm) ==
    /\ limiter.state = "none"
    /\ limiter' = Ratelimit(rps, rpm)
    /\ UNCHANGED <<clock, lcalls, pagvars>>

\* A caller invokes the decorated operation: inner awaits asyncio.sleep.
CallInner(c) ==
    /\ limiter.state = "built" /\ lcalls[c].state = "none"
    /\ lcalls' = [lcalls EXCEPT
                    ![c] = [state |-> "sleeping", called |-> clock,
                            due |-> SleepDue(clock, limiter.sleep_time),
                            started |-> 0]]
    /\ UNCHANGED <<limiter, clock, pagvars>>

\* The event loop resumes inner when its sleep is due, and inner calls the
\* wrapped operation.
StartWrapped(c) ==
    /\ lcalls[c].state = "sleeping" /\ clock >= lcalls[c].due
    /\ lcalls' = [lcalls EXCEPT ![c].state = "running", ![c].started = clock]
    /\ UNCHANGED <<limiter, clock, pagvars>>

\* Time passes.
Tick ==
    /\ clock < MaxClock
    /\ clock' = clock + 1
    /\ UNCHANGED <<limiter, lcalls, pagvars>>

\* ------------------------------------------------------------------ inputs

\* Items of a response: two the model decodes, one it rejects.
Item1 == ObjItem("id", 1)
Item2 == ObjItem("id", 2)
BadItem == ObjItem("bad", 1)

\* The values each field of an object body takes.
FieldValues(k) ==
    CASE k = "data" -> {JList(<<>>), JList(<<Item1, Item2>>), JList(<<BadItem>>),
                        JStr("x")}
      [] k = "code" -> {JStr("snackbar__account_offset-forbidden"), JStr("x")}
      [] k = "errorId" -> {JStr("y")}
      [] OTHER -> {JInt("1")}
BodyKeys == {"data", "code", "errorId", "extra"}

ListBodies == {ListBody(l) : l \in {<<>>, <<Item1>>, <<Item2, Item1>>,
                                    <<Item1, BadItem>>}}
ObjBodies ==
    {ObjBody(o) : o \in UNION {{f \in [ks -> UNION {FieldValues(k) : k \in BodyKeys}] :
                                  \A k \in ks : f[k] \in FieldValues(k)} :
                               ks \in SUBSET BodyKeys}}
\* The decoded bodies a response may hold.
Bodies == ListBodies \cup ObjBodies

ContentTypes == {"application/json", "text/html"}

\* What the caller's own dict and list hold before any paginator is built.
CallerDicts == {EmptyDict,
                [page |-> <<"7">>, q |-> <<"x">>, lang |-> <<"d", "e">>,
                 limit |-> <<"9">>]}
CallerLists == {<<>>, <<<<"t", "1">>>>}

\* Constructor arguments.
PageArgs == {None, Some(0), Some(2), Some(9)}
LimitArgs == {None, Some(5)}
ParamsArgs == {None, Some(0)}
PostOptions ==
    {NoOptions,
     [NoOptions EXCEPT !.tags = Some(0)],
     [NoOptions EXCEPT !.tags = Some(0), !.rating = Some(Rating_SAFE),
                       !.file_type = Some(FileType_VIDEO),
                       !.video_duration = Some(<<10, 20>>)],
     [NoOptions EXCEPT !.video_duration = Some(<<10, 20>>),
                       !.file_type = Some(FileType_GIF)],
     [NoOptions EXCEPT !.video_duration = Some(<<10, 20>>)],
     [NoOptions EXCEPT !.order = Some(PostOrder_QUALITY),
                       !.file_type = Some(FileType_IMAGE),
                       !.hide_posts_in_books = Some(<<"a", "l", "w", "a", "y", "s">>),
                       !.added_by = Some(<<<<"u", "1">>, <<"u", "2">>>>)]}

\* ----------------------------------------------------------- specification

\* The state before any paginator is built: the caller's dict holds cd, its
\* list cl, and the server's first empty page is e.
InitWith(cd, cl, e) ==
    /\ dicts = [r \in Refs |-> IF r = 0 THEN cd ELSE EmptyDict]
    /\ lists = [r \in Refs |-> IF r = 0 THEN cl ELSE <<>>]
    /\ pag = [p \in Insts |-> Unbuilt]
    /\ ctorError = [p \in Insts |-> "none"]
    /\ pc = [p \in Insts |-> "idle"]
    /\ callStart = [p \in Insts |-> [page_number |-> 0, params |-> EmptyDict]]
    /\ json = [p \in Insts |-> NoBody]
    /\ pending = [p \in Insts |-> NoResult]
    /\ result = [p \in Insts |-> NoResult]
    /\ anextOut = [p \in Insts |-> NoResult]
    /\ iter = [p \in Insts |-> NoLoop]
    /\ calls = [p \in Insts |-> 0]
    /\ start = [p \in Insts |-> 0]
    /\ server = e
    /\ given = [p \in Insts |-> NoGiven]
    /\ runs = [p \in Insts |-> <<>>]
    /\ ctype = [p \in Insts |-> ""]
    /\ limiter = NoLimiter
    /\ clock = 0
    /\ lcalls = [c \in LCalls |-> NoLCall]

Init == \E cd \in CallerDicts, cl \in CallerLists : InitWith(cd, cl, 0)

ConstructBasic(p) ==
    \E page_arg \in PageArgs, limit_arg \in LimitArgs, params_arg \in ParamsArgs :
        Construct(p, "basic", page_arg, limit_arg, params_arg, NoOptions)

ConstructPost(p) ==
    \E page_arg \in PageArgs, limit_arg \in LimitArgs, params_arg \in ParamsArgs,
       o \in PostOptions :
        Construct(p, "post", page_arg, limit_arg, params_arg, o)

\* One paginator, used by one consumer, against a server that may answer
\* anything.
Next ==
    \/ ConstructBasic(1)
    \/ ConstructPost(1)
    \/ StartLoop(1)
    \/ CallNextPage(1)
    \/ SendRequest(1)
    \/ \E ct \in ContentTypes : GetReturns(1, ct)
    \/ GetFails(1)
    \/ \E body \in Bodies : JsonReturns(1, body)
    \/ JsonFails(1)
    \/ ExitContext(1)
    \/ Cancel(1)

Spec == Init /\ [][Next]_vars

\* ------------------------------------------------- a server of K pages

\* The non-empty and the empty bodies the paged server answers with.
ServerPages == {ListBody(<<Item1>>),
                ObjBody(Put(EmptyDict, "data", JList(<<Item1, Item2>>)))}
ServerEnd == {ListBody(<<>>), ObjBody(Put(EmptyDict, "data", JList(<<>>)))}

\* The page numbers construction can start at.
StartPages == {IntOr(a, BASE_PAGE_NUMBER) : a \in PageArgs}
\* The first empty page of a server with K pages from a start page S, for
\* the K whose iteration fits into MaxCalls calls.
ServerEnds == {S + K : S \in StartPages, K \in 0..(MaxCalls - 1)}

InitServer ==
    \E cd \in CallerDicts, cl \in CallerLists, e \in ServerEnds : InitWith(cd, cl, e)

\* The caller constructs the paginator at a start page S that the server
\* answers with K = server - S non-empty pages.
ConstructForServer(p) ==
    \E page_arg \in PageArgs, limit_arg \in LimitArgs, params_arg \in ParamsArgs,
       kind \in {"basic", "post"} :
        /\ server - IntOr(page_arg, BASE_PAGE_NUMBER) \in 0..(MaxCalls - 1)
        /\ Construct(p, kind, page_arg, limit_arg, params_arg,
                     IF kind = "post" THEN [NoOptions EXCEPT !.tags = Some(0)]
                     ELSE NoOptions)

\* The consumer runs one loop.
StartOnlyLoop(p) == iter[p].no = 0 /\ StartLoop(p)

\* The server answers the request of p: a non-empty page for a "page" below
\* its first empty page, an empty body from there on.
ServerAnswers(p) ==
    /\ pc[p] = "json"
    /\ LET reqs == iter[p].reqs
           n == ParseInt(reqs[Len(reqs)]["page"])
       IN  \E body \in IF n < server THEN ServerPages ELSE ServerEnd :
              JsonReturns(p, body)

NextServer ==
    \/ ConstructForServer(1)
    \/ StartOnlyLoop(1)
    \/ CallNextPage(1)
    \/ SendRequest(1)
    \/ GetReturns(1, "application/json")
    \/ ServerAnswers(1)
    \/ ExitContext(1)

\* The event loop resumes a suspended call when what it awaits is done, and
\* the consumer's loop keeps asking until the iteration ends.
SpecServer == InitServer /\ [][NextServer]_vars /\ WF_vars(NextServer)

\* --------------------------------------------------------- two paginators

\* What the caller's dict and list hold before the two paginators are built.
TwoCallerDict == Put(EmptyDict, "q", <<"x">>)
TwoCallerList == <<<<"t", "1">>>>

InitTwo == InitWith(TwoCallerDict, TwoCallerList, 0)

ConstructOneOfTwo(p) ==
    \E page_arg \in {None, Some(2)}, params_arg \in ParamsArgs,
       o \in {NoOptions,
              [NoOptions EXCEPT !.tags = Some(0), !.rating = Some(Rating_SAFE)]},
       kind \in {"basic", "post"} :
        /\ kind = "basic" => o = NoOptions
        /\ Construct(p, kind, page_arg, None, params_arg, o)

\* Two paginators, built and stepped in any interleaving.
NextTwo ==
    \E p \in Insts :
        \/ ConstructOneOfTwo(p)
        \/ StartOnlyLoop(p)
        \/ CallNextPage(p)
        \/ SendRequest(p)
        \/ GetReturns(p, "application/json")
        \/ \E body \in {ListBody(<<>>), ListBody(<<Item1>>)} : JsonReturns(p, body)
        \/ ExitContext(p)

SpecTwo == InitTwo /\ [][NextTwo]_vars

\* --------------------------------------------------- the parameter builders

\* A PostPaginator's options with every field given; tags is the caller's
\* list.
AllOptions ==
    [order |-> Some(PostOrder_QUALITY),
     date |-> Some(<<[y |-> 2023, mo |-> 1, d |-> 5, h |-> 7, mi |-> 3, s |-> 59],
                     [y |-> 2024, mo |-> 12, d |-> 31, h |-> 23, mi |-> 40, s |-> 0]>>),
     rating |-> Some(Rating_SAFE), threshold |-> Some(3),
     hide_posts_in_books |-> Some(<<"a", "l", "w", "a", "y", "s">>),
     file_size |-> Some(FileSize_LARGE), file_type |-> Some(FileType_VIDEO),
     video_duration |-> Some(<<5, 120>>),
     recommended_for |-> Some(<<"u", "0">>), favorited_by |-> Some(<<"u", "1">>),
     tags |-> Some(0), added_by |-> Some(<<<<"u", "2">>, <<"u", "3">>>>),
     voted |-> Some(<<"u", "4">>)]

\* The options o with only the fields in ks given.
Only(o, none, ks) == [k \in DOMAIN o |-> IF k \in ks THEN o[k] ELSE none[k]]

\* The sets of fields given together: none, one, all but one, all.
FieldSets(fields) ==
    {ks \in SUBSET fields : Cardinality(ks) <= 1
                            \/ Cardinality(ks) >= Cardinality(fields) - 1}

\* PostPaginator options: those of AllOptions, and a video duration with a
\* file type alone, with each file type.
BuildPostOptions ==
    {[o EXCEPT !.file_type = IF @ = None THEN None ELSE Some(ft)] :
        o \in {Only(AllOptions, NoOptions, ks) :
                  ks \in FieldSets(DOMAIN AllOptions)
                         \cup {{"file_type", "video_duration"}}},
        ft \in {FileType_VIDEO, FileType_IMAGE, FileType_GIF}}

AllTagOptions ==
    [tag_type |-> Some(TagType_ARTIST), order |-> Some(TagOrder_POPULARITY),
     rating |-> Some(Rating_SAFE), max_post_count |-> Some(25),
     sort_parameter |-> Some(SortParameter_NAME),
     sort_direction |-> Some(SortDirection_ASC)]
BuildTagOptions ==
    {Only(AllTagOptions, NoTagOptions, ks) : ks \in SUBSET DOMAIN AllTagOptions}

AllUserOptions == [order |-> Some(UserOrder_NEWEST), level |-> Some(UserLevel_MEMBER)]
BuildUserOptions ==
    {Only(AllUserOptions, NoUserOptions, ks) : ks \in SUBSET DOMAIN AllUserOptions}

\* The limits a caller passes: none, the ends of 1..100 and their neighbours,
\* a negative one.
BuildLimitArgs == {None, Some(0 - 1), Some(0), Some(1), Some(100), Some(101)}
BuildPageArgs == {None, Some(2)}
BuildCallerLists == CallerLists \cup {<<<<"t", "2">>, <<"t", "1">>>>}

InitBuild == \E cd \in CallerDicts, cl \in BuildCallerLists : InitWith(cd, cl, 0)

\* The caller constructs a paginator of any variant.
ConstructAny(p) ==
    \E kind \in {"basic", "post", "tag", "user"},
       page_arg \in BuildPageArgs, limit_arg \in BuildLimitArgs,
       params_arg \in ParamsArgs :
        \E o \in CASE kind = "post" -> BuildPostOptions
                   [] kind = "tag" -> BuildTagOptions
                   [] kind = "user" -> BuildUserOptions
                   [] OTHER -> {NoOptions} :
            Construct(p, kind, page_arg, limit_arg, params_arg, o)

\* One paginator is constructed and its parameters are completed again.
NextBuild ==
    \/ ConstructAny(1)
    \/ CompleteParamsAgain(1)

SpecBuild == InitBuild /\ [][NextBuild]_vars

\* ------------------------------------------------------- the rate limiter

\* The rates ratelimit is given.
RateArgs == {None, Some(0), Some(5), Some(10)}
MinuteRateArgs == {None, Some(0), Some(200), Some(600)}

InitLimit == InitWith(EmptyDict, <<>>, 0)

\* ratelimit is evaluated once; the decorated operation is invoked by
\* callers at any times, also while another invocation is sleeping.
NextLimit ==
    \/ \E rps \in RateArgs, rpm \in MinuteRateArgs : EvalRatelimit(rps, rpm)
    \/ \E c \in LCalls : CallInner(c)
    \/ \E c \in LCalls : StartWrapped(c)
    \/ Tick

SpecLimit == InitLimit /\ [][NextLimit]_vars

\* ------------------------------------------------------------------ claims

\* A next_page() call of p has ended and no other was started since.
CallEnded(p) == pc[p] = "idle" /\ result[p].kind # "none"
\* The call of p ended by raising the exception named e.
Raised(p, e) == CallEnded(p) /\ result[p].kind = "raise" /\ result[p].exc.exc = e
\* The call of p ended by returning a Page.
Returned(p) == CallEnded(p) /\ result[p].kind = "return"
\* page_number and the params mapping of p are what they were when the call
\* started.
StateAsAtCallStart(p) ==
    /\ pag[p].page_number = callStart[p].page_number
    /\ Params(p) = callStart[p].params
\* The body is [] or an object whose "data" is [].
EmptyBodyShape(b) ==
    \/ b = ListBody(<<>>)
    \/ b.t = "obj" /\ "data" \in DOMAIN b.o /\ b.o["data"] = JList(<<>>)
\* The body is a non-empty list, or an object whose "data" is a non-empty list.
ItemsBodyShape(b) ==
    \/ b.t = "list" /\ Len(b.l) >= 1
    \/ b.t = "obj" /\ "data" \in DOMAIN b.o /\ b.o["data"].t = "list"
       /\ Len(b.o["data"].l) >= 1
\* The items of such a body.
BodyItems(b) == IF b.t = "list" THEN b.l ELSE b.o["data"].l

\* C1: a next_page() call that ends with the last-page signal, an API or
\* protocol error or a failure of the item decoder leaves page_number and
\* the params mapping as they were when it started.
C1_NoPageNoAdvance ==
    (Raised(1, "PaginatorLastPage") \/ Raised(1, "SankakuError")
        \/ Raised(1, "TypeError"))
    => StateAsAtCallStart(1)

\* C2: the Page returned for a body of items item1..itemk, by a call that
\* started with page number N, has number N, which is the "page" value of
\* the request that fetched it, and its items are the decoded item1..itemk
\* in order.
C2_PageNumberAndItems ==
    (Returned(1) /\ ItemsBodyShape(json[1])) =>
        LET page == result[1].page
            src == BodyItems(json[1])
            req == iter[1].reqs[Len(iter[1].reqs)]
        IN  /\ page.number = callStart[1].page_number
            /\ req["page"] = Str(page.number)
            /\ ParseInt(req["page"]) = page.number
            /\ Len(page.items) = Len(src)
            /\ \A i \in 1..Len(src) :
                  page.items[i] = [cls |-> "Model", id |-> src[i].val]

\* C2 witness: a Page of two items, unwrapped from an object body, was
\* returned with a two-digit number.
C2_Witness ==
    /\ Returned(1) /\ json[1].t = "obj" /\ Len(result[1].page.items) = 2
    /\ result[1].page.number = 10

\* C3 as stated: after a call that started with page number N returned a
\* non-empty Page, the "page" parameter is the string of N+2.
C3_PageParamNPlus2 ==
    (Returned(1) /\ result[1].page.items # <<>>) =>
        Params(1)["page"] = Str(callStart[1].page_number + 2)

\* C3 amended: after a call that started with page number N returned a
\* non-empty Page, the "page" parameter is the string of N+1, having
\* advanced from the string of N.
C3_PageParamNPlus1 ==
    (Returned(1) /\ result[1].page.items # <<>>) =>
        /\ callStart[1].params["page"] = Str(callStart[1].page_number)
        /\ Params(1)["page"] = Str(callStart[1].page_number + 1)
        /\ pag[1].page_number = callStart[1].page_number + 1

\* C3 witness: a non-empty Page was returned by a call that started at
\* page 9, so that the parameter went from "9" to "10".
C3_Witness ==
    /\ Returned(1) /\ result[1].page.items # <<>>
    /\ callStart[1].page_number = 9 /\ Params(1)["page"] = <<"1", "0">>

\* The call of p was cancelled.
Cancelled(p) == Raised(p, "CancelledError")

\* C4: when the body is [] or an object whose "data" is [], the step ends
\* the loop cleanly and page_number and the params mapping are as they were
\* before the step.
C4_EmptyBodyEndsCleanly ==
    (CallEnded(1) /\ EmptyBodyShape(json[1]) /\ ~Cancelled(1)) =>
        /\ anextOut[1] = StopAsyncIteration
        /\ iter[1].status = "ended"
        /\ StateAsAtCallStart(1)

\* C4 witness: a loop that had received a Page ended on an object body with
\* an empty "data" list and further fields.
C4_Witness ==
    /\ CallEnded(1) /\ ~Cancelled(1) /\ json[1].t = "obj"
    /\ EmptyBodyShape(json[1]) /\ "code" \in DOMAIN json[1].o
    /\ iter[1].status = "ended" /\ Len(iter[1].yielded) = 1

\* The body is an object whose "code" is in the benign set.
BenignCodeShape(b) ==
    b.t = "obj" /\ "code" \in DOMAIN b.o
    /\ b.o["code"].s \in PAGE_ALLOWED_ERRORS
\* The body is an object with a "code" outside the benign set and an "errorId".
ErrorShape(b) ==
    b.t = "obj" /\ "code" \in DOMAIN b.o /\ "errorId" \in DOMAIN b.o
    /\ b.o["code"].s \notin PAGE_ALLOWED_ERRORS
\* The step of p raised to the consumer an API error with exactly the code,
\* the errorId and the remaining fields of body b.
ApiErrorOf(p, b) ==
    /\ Raised(p, "SankakuError")
    /\ anextOut[p] = result[p]
    /\ result[p].exc.code = b.o["code"]
    /\ result[p].exc.error_id = b.o["errorId"]
    /\ DOMAIN result[p].exc.kwargs = DOMAIN b.o \ {"code", "errorId"}
    /\ \A k \in DOMAIN result[p].exc.kwargs : result[p].exc.kwargs[k] = b.o[k]

\* C5 as stated: a body with a benign "code" ends the loop cleanly; a body
\* with a "code" outside the set and an "errorId" raises an API error with
\* that code, that errorId and every remaining field.
C5_ErrorBodies ==
    (CallEnded(1) /\ ~Cancelled(1)) =>
        /\ BenignCodeShape(json[1]) =>
              anextOut[1] = StopAsyncIteration /\ iter[1].status = "ended"
        /\ ErrorShape(json[1]) => ApiErrorOf(1, json[1])

\* C5 amended: as stated, for the bodies with a "code" outside the set and
\* an "errorId" whose "data" field is not an empty list (an object with an
\* empty "data" list ends the loop cleanly whatever else it holds).
C5_ErrorBodiesNoEmptyData ==
    (CallEnded(1) /\ ~Cancelled(1)) =>
        /\ BenignCodeShape(json[1]) =>
              anextOut[1] = StopAsyncIteration /\ iter[1].status = "ended"
        /\ (ErrorShape(json[1]) /\ ~EmptyBodyShape(json[1])) =>
              ApiErrorOf(1, json[1])
        /\ (ErrorShape(json[1]) /\ EmptyBodyShape(json[1])) =>
              anextOut[1] = StopAsyncIteration

\* C5 witness: an API error reached the consumer with a remaining field
\* besides code and errorId.
C5_Witness ==
    /\ CallEnded(1) /\ ErrorShape(json[1]) /\ ApiErrorOf(1, json[1])
    /\ DOMAIN result[1].exc.kwargs = {"data", "extra"}
    /\ iter[1].status = "failed"

\* C6: __anext__ ends the loop cleanly exactly when next_page raised the
\* last-page signal; whatever else next_page raised or returned reaches the
\* consumer as it is, and a raised failure aborts the loop.
C6_OnlyLastPageEndsLoop ==
    CallEnded(1) =>
        /\ Raised(1, "PaginatorLastPage") =>
              anextOut[1] = StopAsyncIteration /\ iter[1].status = "ended"
        /\ ~Raised(1, "PaginatorLastPage") =>
              /\ anextOut[1] = result[1]
              /\ anextOut[1] # StopAsyncIteration
              /\ result[1].kind = "raise" => iter[1].status = "failed"
              /\ result[1].kind = "return" => iter[1].status = "running"

\* C6 witness: a failure of the item decoder reached the consumer and
\* aborted the loop.
C6_Witness ==
    /\ Raised(1, "TypeError") /\ anextOut[1] = result[1]
    /\ iter[1].status = "failed"

\* C8: the first request of a second loop over a paginator carries the
\* "page" value the paginator had when the first loop ended; if the answer
\* to it is an empty body the second loop receives no Page.
C8_SecondLoopContinues ==
    (iter[1].no >= 2 /\ Len(iter[1].reqs) >= 1) =>
        /\ iter[1].reqs[1]["page"] = iter[1].prevEnd
        /\ (Len(iter[1].reqs) = 1 /\ CallEnded(1) /\ ~Cancelled(1)
              /\ EmptyBodyShape(json[1]))
           => iter[1].yielded = <<>> /\ iter[1].status = "ended"

\* C8 witness: a second loop sent its first request with a "page" that is
\* not the one construction set, got an empty body and ended with no Page.
C8_Witness ==
    /\ iter[1].no = 2 /\ Len(iter[1].reqs) = 1
    /\ iter[1].reqs[1]["page"] # Str(start[1])
    /\ iter[1].reqs[1]["page"] = Str(start[1] + 1)
    /\ CallEnded(1) /\ EmptyBodyShape(json[1])
    /\ iter[1].yielded = <<>> /\ iter[1].status = "ended"

\* C9: a cancelled next_page() call leaves page_number and the params
\* mapping as they were when the call started.
C9_CancelLeavesState == Cancelled(1) => StateAsAtCallStart(1)

\* The loop over p has sent the requests "page" = S, ..., S+K in this order
\* and received the Pages numbered S, ..., S+K-1 in this order.
FetchedExactly(p, S, K) ==
    /\ Len(iter[p].reqs) = K + 1
    /\ \A i \in 1..(K + 1) : iter[p].reqs[i]["page"] = Str(S + i - 1)
    /\ iter[p].yielded = [i \in 1..K |-> S + i - 1]
    /\ calls[p] = K + 1

\* C7: against a server that answers K non-empty pages from the start page
\* S and an empty body for page S+K, the loop ends, having sent exactly the
\* K+1 requests "page" = S, ..., S+K in order and received exactly the K
\* Pages numbered S, ..., S+K-1 in order; a request is sent only in a step
\* the consumer asked for.
C7_IterationOverKPages ==
    /\ [](iter[1].status = "ended" => FetchedExactly(1, start[1], server - start[1]))
    /\ [](Len(iter[1].reqs) = calls[1] - (IF pc[1] = "sleep" THEN 1 ELSE 0))
    /\ [](iter[1].status # "failed")
    /\ (Built(1) ~> iter[1].status = "ended")

\* C7 witness: a loop over two pages, 9 and 10, has ended after three
\* requests.
C7_Witness ==
    /\ iter[1].status = "ended" /\ start[1] = 9 /\ server = 11
    /\ iter[1].yielded = <<9, 10>> /\ Len(iter[1].reqs) = 3

\* The tag tokens of p when p is the only paginator built from the caller's
\* list.
TagsAlone(p) ==
    PostLoop(pag[p].opt, 1,
             IF pag[p].opt.tags = Some(0) THEN TwoCallerList ELSE <<>>).tags

\* C10: whatever two paginators were built from, and however their steps
\* interleave, each one's page_number, params and tags are its own: the
\* request a paginator has just sent carries its own page number and the
\* tags built from its own options.
C10_InstancesIndependent ==
    \A p \in Insts :
        pc[p] = "get" =>
            LET req == iter[p].reqs[Len(iter[p].reqs)]
            IN  /\ req["page"] = Str(pag[p].page_number)
                /\ IF TagsAlone(p) = <<>> THEN "tags" \notin DOMAIN req
                   ELSE /\ "tags" \in DOMAIN req
                        /\ req["tags"] = Join(<<" ">>, TagsAlone(p))

\* The constructor of p has run, whether it returned or raised.
Constructed(p) == Built(p) \/ ctorError[p] # "none"

\* C11: construction with a limit in 1..100 sets the "limit" parameter to
\* the string of that number; construction with a limit outside 1..100
\* fails, and no paginator is built from it.
C11_LimitValidated ==
    (Constructed(1) /\ given[1].limit # None) =>
        LET limit == Get(given[1].limit)
        IN  IF limit \in 1..100
            THEN Built(1) => Params(1)["limit"] = Str(limit)
            ELSE ~Built(1)

\* C12: running complete_params() a second time on a paginator leaves the
\* params mapping equal to what the first run left.
C12_CompleteParamsIdempotent ==
    Len(runs[1]) >= 2 => runs[1][2] = runs[1][1]

\* The space-separated string s holds the token tok.
HasToken(s, tok) ==
    \E i \in 1..(Len(s) - Len(tok) + 1) :
        /\ SubSeq(s, i, i + Len(tok) - 1) = tok
        /\ i = 1 \/ s[i - 1] = " "
        /\ i + Len(tok) - 1 = Len(s) \/ s[i + Len(tok)] = " "

\* C13: constructing a PostPaginator with a video duration and a file type
\* that is absent or not VIDEO fails with VideoDurationError, no paginator
\* is built and no request is ever sent; with file type VIDEO and the
\* duration [10, 20] construction succeeds and "tags" holds the token
\* duration:10..20.
C13_VideoDurationNeedsVideo ==
    (Constructed(1) /\ given[1].opt.video_duration # None) =>
        IF given[1].opt.file_type # Some(FileType_VIDEO)
        THEN /\ ~Built(1) /\ ctorError[1] = "VideoDurationError"
             /\ calls[1] = 0 /\ iter[1].no = 0 /\ iter[1].reqs = <<>>
        ELSE /\ Built(1) /\ ctorError[1] = "none"
             /\ given[1].opt.video_duration = Some(<<10, 20>>)
             /\ "tags" \in DOMAIN Params(1)
             /\ HasToken(Params(1)["tags"],
                         <<"d", "u", "r", "a", "t", "i", "o", "n", ":",
                           "1", "0", ".", ".", "2", "0">>)

\* C13 witness: construction with a video duration and no file type has
\* failed with VideoDurationError.
C13_Witness ==
    /\ ctorError[1] = "VideoDurationError" /\ ~Built(1)
    /\ given[1].opt.video_duration = Some(<<10, 20>>)
    /\ given[1].opt.file_type = None

\* An argument of ratelimit was supplied.
Supplied(x) == x # None

\* C14: ratelimit(...) with both rps and rpm supplied raises a configuration
\* error (RateLimitError), with neither supplied it raises an error of the
\* same kind, and with exactly one of them supplied it raises nothing and
\* returns the decorator.
C14_RatelimitArguments ==
    limiter.state # "none" =>
        IF Supplied(limiter.rps) = Supplied(limiter.rpm)
        THEN limiter.state = "raised" /\ limiter.err = "RateLimitError"
        ELSE limiter.state = "built"

\* The wrapped operation of invocation c has started.
Started(c) == lcalls[c].state = "running"
\* d ticks are the delay 1/rps or 60/rpm seconds of the limiter's rate.
IsDelayOfRate(d) ==
    IF Truthy(limiter.rps) THEN d * Get(limiter.rps) = TicksPerSecond
    ELSE d * Get(limiter.rpm) = SecondsPerMinute * TicksPerSecond

\* C15: every invocation of the rate-limited operation, the first included,
\* sleeps until its own call time plus the fixed delay (1/rps or 60/rpm
\* seconds, the same for every invocation, whenever the other invocations
\* were made), and its wrapped operation starts no earlier than that.
C15_EveryCallWaitsDelay ==
    \A c \in LCalls :
        lcalls[c].state # "none" =>
            /\ IsDelayOfRate(lcalls[c].due - lcalls[c].called)
            /\ lcalls[c].due - lcalls[c].called > 0
            /\ lcalls[c].state = "sleeping" => lcalls[c].started = 0
            /\ Started(c) => lcalls[c].started >= lcalls[c].due

\* C15 witness: with rps = 5 (a delay of 2 ticks), one invocation made at
\* time 0 started at time 2 and another, made at time 3, started at time 5.
C15_Witness ==
    /\ limiter.rps = Some(5) /\ limiter.rpm = None
    /\ \E c, e \in LCalls :
          /\ Started(c) /\ lcalls[c].called = 0 /\ lcalls[c].started = 2
          /\ Started(e) /\ lcalls[e].called = 3 /\ lcalls[e].started = 5

\* The call of p received a response whose content type is not JSON.
NonJsonResponse(p) == ctype[p] \notin {"", "application/json"}

\* C16: a call that received a response whose content type is not JSON
\* never decodes the body and leaves page_number and the params mapping as
\* they were; it raises a SankakuError that carries a message and neither
\* code nor errorId, so that it differs from the API error of every
\* code+errorId body, and the consumer gets it as an error that aborts the
\* loop, not as the end of the sequence.
C16_NonJsonIsProtocolError ==
    (CallEnded(1) /\ NonJsonResponse(1)) =>
        /\ json[1] = NoBody
        /\ StateAsAtCallStart(1)
        /\ ~Cancelled(1) =>
              /\ Raised(1, "SankakuError")
              /\ result[1].exc.msg = "Response content type is invalid"
              /\ result[1].exc.code = JNull /\ result[1].exc.error_id = JNull
              /\ \A b \in Bodies :
                    IsApiError(b) => result[1].exc # Match(b, pag[1].page_number).exc
              /\ anextOut[1] = result[1]
              /\ anextOut[1] # StopAsyncIteration
              /\ iter[1].status = "failed"

\* C16 witness: a loop that had received a Page got a response of type
\* text/html to its second request and was aborted by the protocol error.
C16_Witness ==
    /\ CallEnded(1) /\ ctype[1] = "text/html" /\ Raised(1, "SankakuError")
    /\ Len(iter[1].yielded) = 1 /\ Len(iter[1].reqs) = 2
    /\ iter[1].status = "failed"

\* The body is a JSON object matching none of the recognized shapes: no
\* "data" list, no benign "code", no "code" together with "errorId".
UnrecognizedObject(b) ==
    /\ b.t = "obj"
    /\ ~("data" \in DOMAIN b.o /\ b.o["data"].t = "list")
    /\ ~BenignCodeShape(b)
    /\ ~("code" \in DOMAIN b.o /\ "errorId" \in DOMAIN b.o)

\* C17: a call whose response body is a JSON object matching none of the
\* recognized shapes raises a protocol error (SankakuError) that aborts the
\* loop; it returns no Page and does not advance page_number.
C17_UnrecognizedObjectIsFatal ==
    (CallEnded(1) /\ UnrecognizedObject(json[1]) /\ ~Cancelled(1)) =>
        /\ Raised(1, "SankakuError")
        /\ iter[1].status = "failed"
        /\ pag[1].page_number = callStart[1].page_number

\* C18: in every state after construction the params mapping of a paginator
\* holds "lang" = "en", "limit" = the string of the limit construction set
\* and "page" = the string of page_number; page_number never falls below
\* its value at construction, and over a call that ended with a Page, the
\* last-page signal or an error it grows by one if the call returned a Page
\* and not at all otherwise.
C18_ParamsTrackState ==
    Built(1) =>
        /\ Params(1)["lang"] = <<"e", "n">>
        /\ Params(1)["limit"] = Str(IntOr(given[1].limit, BASE_PAGE_LIMIT))
        /\ Params(1)["page"] = Str(pag[1].page_number)
        /\ pag[1].page_number >= start[1]
        /\ (CallEnded(1) /\ ~Cancelled(1)) =>
              pag[1].page_number - callStart[1].page_number
                  = IF Returned(1) THEN 1 ELSE 0

\* The call of p ended as the decoding of the item list items does: with a
\* Page of the decoded items, or with the decoder's error.
EndedAsItems(p, items) ==
    IF \A i \in 1..Len(items) : items[i].t = "obj" /\ items[i].key = "id"
    THEN /\ Returned(p)
         /\ result[p].page.items
              = [i \in 1..Len(items) |-> [cls |-> "Model", id |-> items[i].val]]
    ELSE Raised(p, "TypeError")

\* C19: the classification of a decoded body applies its five rules in
\* order and the first rule that matches decides. Rule 1, an empty list or
\* an object with an empty "data" list, is last-page whatever else the
\* object holds; rule 2, a benign "code", is last-page also with an
\* "errorId"; rule 3, "code" and "errorId", is the API error also with a
\* non-empty "data" list; a body that matches none of them is unwrapped if
\* it is an object with a non-empty "data" list (rule 4) and is else taken
\* itself as the item list (rule 5).
C19_FirstMatchingRuleDecides ==
    (CallEnded(1) /\ ~Cancelled(1) /\ json[1] # NoBody) =>
        LET b == json[1]
            rule1 == EmptyBodyShape(b)
            rule2 == BenignCodeShape(b)
            rule3 == b.t = "obj" /\ {"code", "errorId"} \subseteq DOMAIN b.o
            rule4 == b.t = "obj" /\ ItemsBodyShape(b)
        IN  /\ rule1 => Raised(1, "PaginatorLastPage")
            /\ (~rule1 /\ rule2) => Raised(1, "PaginatorLastPage")
            /\ (~rule1 /\ ~rule2 /\ rule3) => ApiErrorOf(1, b)
            /\ (~rule1 /\ ~rule2 /\ ~rule3 /\ rule4) =>
                  EndedAsItems(1, b.o["data"].l)
            /\ (~rule1 /\ ~rule2 /\ ~rule3 /\ ~rule4) =>
                  IF b.t = "list" THEN EndedAsItems(1, b.l)
                  ELSE IF b.o = EmptyDict
                  THEN Returned(1) /\ result[1].page.items = <<>>
                  ELSE Raised(1, "TypeError")

\* C19 witness: a body with a benign "code", an "errorId" and a non-empty
\* "data" list has ended the loop cleanly.
C19_Witness ==
    /\ CallEnded(1) /\ Raised(1, "PaginatorLastPage")
    /\ BenignCodeShape(json[1]) /\ "errorId" \in DOMAIN json[1].o
    /\ ItemsBodyShape(json[1])
    /\ iter[1].status = "ended"

\* The order in which the fields contribute their tokens.
TokenOrder == <<"order", "date", "rating", "threshold", "file_size", "file_type",
                "video_duration", "recommended_for", "favorited_by", "added_by",
                "voted">>

\* The tokens written for the field k of the options o, which hold for each
\* field given the value that AllOptions holds, and any file type:
\* order:quality, date:2023-01-05T07:03..2024-12-31T23:40, rating:s,
\* threshold:3, large-filesize, file_type:video or file_type:gif,
\* duration:5..120, recommended_for:u0, fav:u1, user:u2 and user:u3, voted:u4.
TokensOf(o, k) ==
    IF o[k] = None THEN <<>>
    ELSE CASE k = "order" ->
                 <<<<"o", "r", "d", "e", "r", ":", "q", "u", "a", "l", "i",
                 "t", "y">>>>
           [] k = "date" ->
                 <<<<"d", "a", "t", "e", ":", "2", "0", "2", "3", "-", "0",
                 "1", "-", "0", "5", "T", "0", "7", ":", "0", "3", ".", ".",
                 "2", "0", "2", "4", "-", "1", "2", "-", "3", "1", "T", "2",
                 "3", ":", "4", "0">>>>
           [] k = "rating" ->
                 <<<<"r", "a", "t", "i", "n", "g", ":", "s">>>>
           [] k = "threshold" ->
                 <<<<"t", "h", "r", "e", "s", "h", "o", "l", "d", ":",
                 "3">>>>
           [] k = "file_size" ->
                 <<<<"l", "a", "r", "g", "e", "-", "f", "i", "l", "e", "s",
                 "i", "z", "e">>>>
           [] k = "video_duration" ->
                 <<<<"d", "u", "r", "a", "t", "i", "o", "n", ":", "5", ".",
                 ".", "1", "2", "0">>>>
           [] k = "recommended_for" ->
                 <<<<"r", "e", "c", "o", "m", "m", "e", "n", "d", "e", "d",
                 "_", "f", "o", "r", ":", "u", "0">>>>
           [] k = "favorited_by" ->
                 <<<<"f", "a", "v", ":", "u", "1">>>>
           [] k = "added_by" ->
                 <<<<"u", "s", "e", "r", ":", "u", "2">>, <<"u", "s", "e",
                 "r", ":", "u", "3">>>>
           [] k = "voted" ->
                 <<<<"v", "o", "t", "e", "d", ":", "u", "4">>>>
           [] k = "file_type" ->
                 IF o[k] = Some(FileType_VIDEO)
                 THEN <<<<"f", "i", "l", "e", "_", "t", "y", "p", "e", ":",
                        "v", "i", "d", "e", "o">>>>
                 ELSE IF o[k] = Some(FileType_GIF)
                 THEN <<<<"f", "i", "l", "e", "_", "t", "y", "p", "e", ":",
                        "g", "i", "f">>>>
                 ELSE <<>>

\* The tokens of the fields from number i of TokenOrder on.
RECURSIVE TokensFrom(_, _)
TokensFrom(o, i) ==
    IF i > Len(TokenOrder) THEN <<>>
    ELSE TokensOf(o, TokenOrder[i]) \o TokensFrom(o, i + 1)

\* C20: after the construction of a PostPaginator, "tags" is the caller's
\* explicit tags, in their order, followed by the tokens of the fields given,
\* in the order order, date, rating, threshold, file_size, file_type,
\* video_duration, recommended_for, favorited_by, added_by, voted, joined by
\* spaces; a field not given and the file type IMAGE write no token; "tags"
\* is absent when there is no token; hide_posts_in_books is written as its
\* own parameter and is no token of "tags".
C20_TagsOfPostPaginator ==
    (Built(1) /\ pag[1].kind = "post") =>
        LET params == runs[1][1]
            o == given[1].opt
            explicit == IF given[1].tags = None THEN <<>> ELSE Get(given[1].tags)
            expected == explicit \o TokensFrom(o, 1)
        IN  /\ IF expected = <<>> THEN "tags" \notin DOMAIN params
               ELSE /\ "tags" \in DOMAIN params
                    /\ params["tags"] = Join(<<" ">>, expected)
            /\ IF o.hide_posts_in_books = None
               THEN "hide_posts_in_books" \notin DOMAIN params
               ELSE /\ params["hide_posts_in_books"] = Get(o.hide_posts_in_books)
                    /\ "tags" \in DOMAIN params =>
                          ~HasToken(params["tags"], Get(o.hide_posts_in_books))

\* C20 witness: a PostPaginator was built from the caller's tags t2, t1 and
\* every field, and its "tags" starts with the caller's tags and has the
\* length of all the tokens joined.
C20_Witness ==
    /\ Built(1) /\ pag[1].kind = "post" /\ Len(runs[1]) = 1
    /\ given[1].opt = AllOptions
    /\ given[1].tags = Some(<<<<"t", "2">>, <<"t", "1">>>>)
    /\ SubSeq(runs[1][1]["tags"], 1, 6) = <<"t", "2", " ", "t", "1", " ">>
    /\ Len(runs[1][1]["tags"]) = 178

====
